---- MODULE Spec2Model ----
(***************************************************************************)
(* Model of the tileable texture generator (src/src/main.rs): the toroidal *)
(* Voronoi distance field, the directional blur, the normalizer and the    *)
(* refinement loop of main.                                                *)
(*                                                                         *)
(* Intensity fields are functions from pixel index y * width + x to 0..255 *)
(* (the red channel; the other two channels are always 0).                 *)
(*                                                                         *)
(* Single precision arithmetic is modelled bit-exactly.  A finite          *)
(* non-negative f32 is a record [m, e] of value m * 2^e with m < 2^24;     *)
(* every operation rounds to nearest, ties to even, as IEEE 754 does.      *)
(* All intermediate integers stay below 2^31.                              *)
(***************************************************************************)
EXTENDS Integers, Sequences, FiniteSets, TLC

----------------------------------------------------------------------------
(* Bounds of the model.                                                    *)

\* log2 of the largest texture edge length explored (SIZE is 512 in the source).
MaxSizeLog == 2

\* number of Voronoi sites (NUM_POINTS is 240 in the source): when the
\* generator runs alone, and in the runs of the whole of main.
NumPoints == 2
MainPoints == 1

\* largest blur radius given to directional_blur when it is called alone.
MaxRadius == 3

\* largest width and height of the images given to directional_blur alone.
BlurDim == 2

\* largest number of pixels of the images given to normalize_image alone.
NormPixels == 3

\* distance between the intensity levels the input images are drawn from.
LevelStep == 37

----------------------------------------------------------------------------
(* f32 arithmetic.                                                         *)

Pow2(n) == 2^n

F32Zero == [m |-> 0, e |-> 0]
F32NaN == [m |-> -1, e |-> 0]
IsNaN(v) == v.m < 0

\* the f32 of a small non-negative integer (exact below 2^24)
F32OfInt(n) == [m |-> n, e |-> 0]

\* number of binary digits of n > 0
RECURSIVE BitLen(_)
BitLen(n) == IF n = 0 THEN 0 ELSE 1 + BitLen(n \div 2)

\* canonical form: m in [2^23, 2^24), or zero
F32Normal(v) ==
    IF v.m < 0 THEN v
    ELSE IF v.m = 0 THEN F32Zero
    ELSE IF v.m >= 2^23 /\ v.m < 2^24 THEN v
    ELSE LET s == 24 - BitLen(v.m)
         IN  IF s >= 0 THEN [m |-> v.m * Pow2(s), e |-> v.e - s]
             ELSE \* only a mantissa rounded up to 2^24 gets here
                  [m |-> v.m \div Pow2(-s), e |-> v.e - s]

\* round m + (rem / den) to nearest, ties to even; den > rem >= 0
RoundEven(m, rem, den) ==
    IF 2 * rem > den THEN m + 1
    ELSE IF 2 * rem = den /\ m % 2 = 1 THEN m + 1
    ELSE m

\* quotient bits of a / b, one at a time: q holds the bits so far
RECURSIVE DivBits(_, _, _, _)
DivBits(q, rem, b, n) ==
    IF n = 0 THEN RoundEven(q, rem, b)
    ELSE IF 2 * rem >= b THEN DivBits(2 * q + 1, 2 * rem - b, b, n - 1)
    ELSE DivBits(2 * q, 2 * rem, b, n - 1)

\* a / b in f32; 0/0 is NaN (no other division by zero occurs in the program)
F32Div(a, b) ==
    IF IsNaN(a) \/ IsNaN(b) THEN F32NaN
    ELSE IF b.m = 0 THEN F32NaN
    ELSE IF a.m = 0 THEN F32Zero
    ELSE LET na == F32Normal(a)
             nb == F32Normal(b)
             \* na.m / nb.m is in (1/2, 2): make the quotient's first bit 1
             lt == na.m < nb.m
             num == IF lt THEN 2 * na.m ELSE na.m
             q == DivBits(1, num - nb.m, nb.m, 23)
         IN  F32Normal([m |-> q, e |-> na.e - nb.e - 23 - (IF lt THEN 1 ELSE 0)])

\* 1.0 - q in f32, for q in [0, 1]
F32OneMinus(q) ==
    IF IsNaN(q) THEN F32NaN
    ELSE IF q.m = 0 THEN F32OfInt(1)
    ELSE LET n == F32Normal(q)
             j == -(n.e) - 24
         IN  IF j < 0 THEN \* q >= 1/2: the difference is exact
                  F32Normal([m |-> Pow2(-(n.e)) - n.m, e |-> n.e])
             ELSE IF j = 0 THEN F32Normal([m |-> Pow2(24) - n.m, e |-> -24])
             ELSE IF j > 25 THEN F32OfInt(1)
             ELSE \* 1 - q is in (1/2, 1): its ulp is 2^-24
                  LET d == Pow2(j)
                      hi == n.m \div d
                      lo == n.m % d
                      \* 1 - q = (2^24 - hi - lo/d) * 2^-24
                      r == IF lo = 0 THEN Pow2(24) - hi
                           ELSE RoundEven(Pow2(24) - hi - 1, d - lo, d)
                  IN  F32Normal([m |-> r, e |-> -24])

\* v * k in f32, for an integer 0 < k < 2^9
F32MulInt(v, k) ==
    IF IsNaN(v) THEN F32NaN
    ELSE IF v.m = 0 THEN F32Zero
    ELSE LET n == F32Normal(v)
             mh == n.m \div 4096
             ml == n.m % 4096
             hi == mh * k + ((ml * k) \div 4096)
             lo == (ml * k) % 4096
             \* the product is (hi * 4096 + lo) * 2^n.e
             s == BitLen(hi) - 12
         IN  IF s <= 0 THEN [m |-> hi * 4096 + lo, e |-> n.e]
             ELSE \* 24 + s bits: drop the low s (at most 9)
                  LET d == Pow2(s)
                      r == RoundEven(hi * Pow2(12 - s) + (lo \div d), lo % d, d)
                  IN  F32Normal([m |-> r, e |-> n.e + s])

\* floor(sqrt(n)) for a small n
ISqrt(n) == CHOOSE r \in 0..n : r * r <= n /\ (r + 1) * (r + 1) > n

\* digits of sqrt, one at a time, until the root has 24 bits
RECURSIVE SqrtBits(_, _, _)
SqrtBits(root, rem, k) ==
    IF root >= Pow2(23)
    THEN [m |-> IF rem > root THEN root + 1 ELSE root, e |-> -k]
    ELSE IF 4 * rem >= 4 * root + 1
         THEN SqrtBits(2 * root + 1, 4 * rem - (4 * root + 1), k + 1)
         ELSE SqrtBits(2 * root, 4 * rem, k + 1)

\* sqrt(n) in f32 for an integer n >= 0 (correctly rounded, as IEEE requires)
F32SqrtInt(n) ==
    IF n = 0 THEN F32Zero
    ELSE LET r == ISqrt(n) IN F32Normal(SqrtBits(r, n - r * r, 0))

\* v * 2^k (exact)
F32Scale(v, k) == IF v.m <= 0 THEN v ELSE [m |-> v.m, e |-> v.e + k]

\* a < b for non-NaN values
F32Less(a, b) ==
    LET na == F32Normal(a)
        nb == F32Normal(b)
    IN  IF nb.m = 0 THEN FALSE
        ELSE IF na.m = 0 THEN TRUE
        ELSE na.e < nb.e \/ (na.e = nb.e /\ na.m < nb.m)

\* integer part of v >= 0
F32Floor(v) ==
    LET n == F32Normal(v)
    IN  IF n.m = 0 THEN 0
        ELSE IF n.e >= 0 THEN n.m * Pow2(n.e)
        ELSE IF -(n.e) > 24 THEN 0
        ELSE n.m \div Pow2(-(n.e))

\* f32::round of v >= 0: to the nearest integer, halves away from zero
F32Round(v) ==
    LET n == F32Normal(v)
    IN  IF n.m = 0 THEN 0
        ELSE IF n.e >= 0 THEN n.m * Pow2(n.e)
        ELSE IF -(n.e) > 25 THEN 0
        ELSE LET d == Pow2(-(n.e))
             IN  (n.m \div d) + (IF 2 * (n.m % d) >= d THEN 1 ELSE 0)

\* `x as u8` of an integer-valued float: saturating
SatU8(n) == IF n < 0 THEN 0 ELSE IF n > 255 THEN 255 ELSE n

\* `v as u8`: truncates toward zero, saturates, NaN becomes 0
F32AsU8(v) == IF IsNaN(v) THEN 0 ELSE SatU8(F32Floor(v))

\* `v.round() as u8`
F32RoundAsU8(v) == IF IsNaN(v) THEN 0 ELSE SatU8(F32Round(v))

\* the value of the IEEE 754 single whose low 31 bits are b (a normal number or 0)
F32OfBits(b) ==
    IF b = 0 THEN F32Zero
    ELSE [m |-> Pow2(23) + (b % Pow2(23)), e |-> (b \div Pow2(23)) - 150]

----------------------------------------------------------------------------
(* Program constants.                                                      *)

BLUR_RADIUS == 3

\* the rounds of the refinement loop: for i in 0..4
Rounds == 4

----------------------------------------------------------------------------
(* Images: ImageBuffer<Rgb<u8>, Vec<u8>>, red channel only.                *)

NoTexture == [width |-> 0, height |-> 0, data |-> <<>>]

PixelIndexes(w, h) == 0..(w * h - 1)

GetPixel(img, x, y) == img.data[y * img.width + x]

Abs(n) == IF n < 0 THEN -n ELSE n
Min2(a, b) == IF a <= b THEN a ELSE b

----------------------------------------------------------------------------
(* normalize_image                                                         *)

\* the scan for the minimum, starting from 255
MinValue(img) ==
    LET vals == {img.data[k] : k \in DOMAIN img.data} \cup {255}
    IN  CHOOSE v \in vals : \A u \in vals : v <= u

\* the scan for the maximum, starting from 0
MaxValue(img) ==
    LET vals == {img.data[k] : k \in DOMAIN img.data} \cup {0}
    IN  CHOOSE v \in vals : \A u \in vals : v >= u

\* a plausible slip: the denominator is max instead of max - min
NormalizedValueOverMax(p, min_value, max_value) ==
    IF max_value > min_value
    THEN F32MulInt(F32Div(F32OfInt(p - min_value), F32OfInt(max_value)), 255)
    ELSE F32OfInt(p)

\* a plausible slip: the numerator is the pixel instead of pixel - min
NormalizedValueNoOffset(p, min_value, max_value) ==
    IF max_value > min_value
    THEN F32MulInt(F32Div(F32OfInt(p), F32OfInt(max_value - min_value)), 255)
    ELSE F32OfInt(p)

\* a plausible slip: no guard for the flat field
NormalizedValueUnguarded(p, min_value, max_value) ==
    F32MulInt(F32Div(F32OfInt(p - min_value), F32OfInt(max_value - min_value)), 255)

\* the value of one pixel before rounding
NormalizedValue(p, min_value, max_value) ==
    IF max_value > min_value
    THEN F32MulInt(F32Div(F32OfInt(p - min_value), F32OfInt(max_value - min_value)), 255)
    ELSE F32OfInt(p)

normalize_image(img) ==
    LET min_value == MinValue(img)
        max_value == MaxValue(img)
    IN  [width |-> img.width, height |-> img.height,
         data |-> [k \in PixelIndexes(img.width, img.height) |->
                     F32RoundAsU8(NormalizedValue(img.data[k], min_value, max_value))]]

----------------------------------------------------------------------------
(* directional_blur                                                        *)

(* cos and sin of the angle of each direction byte d, as the code computes *)
(* it: (d as f32 / 255.0 * 360.0).to_radians().  Entry d + 1 is the IEEE   *)
(* 754 encoding of the single precision result without its sign bit, and   *)
(* is negative when the result is.  cos and sin are taken to be correctly  *)
(* rounded; one unit in the last place either way changes no delta for     *)
(* offsets up to 24.                                                       *)
CosBits ==
  <<
    1065353216, 1065348123, 1065332848, 1065307400, 1065271795, 1065226053,
    1065170204, 1065104280, 1065028321, 1064942375, 1064846493, 1064740733,
    1064625159, 1064499842, 1064364858, 1064220288, 1064066221, 1063902749,
    1063729973, 1063547997, 1063356932, 1063156893, 1062948002, 1062730386,
    1062504176, 1062269512, 1062026533, 1061775389, 1061516232, 1061249219,
    1060974512, 1060692278, 1060402688, 1060105918, 1059802148, 1059491563,
    1059174351, 1058850705, 1058520822, 1058184900, 1057843147, 1057495765,
    1057142969, 1056605338, 1055879377, 1055143889, 1054399320, 1053646124,
    1052884757, 1052115682, 1051339368, 1050556281, 1049766898, 1048971700,
    1047766338, 1046155590, 1044536118, 1042908914, 1041274964, 1039083131,
    1035794227, 1032497788, 1026592882, 1016553716, -1003084298, -1023165985,
    -1029896005, -1034146842, -1037439771, -1040455779, -1042092730, -1043723431,
    -1045346892, -1046962128, -1048568159, -1049369997, -1050162347, -1050948646,
    -1051728407, -1052501162, -1053266434, -1054023773, -1054772716, -1055512797,
    -1056243580, -1056964609, -1057320031, -1057670148, -1058014740, -1058353606,
    -1058686532, -1059013324, -1059333775, -1059647696, -1059954899, -1060255190,
    -1060548394, -1060834326, -1061112820, -1061383699, -1061646803, -1061901975,
    -1062149054, -1062387895, -1062618348, -1062840277, -1063053548, -1063258027,
    -1063453595, -1063640129, -1063817518, -1063985656, -1064144436, -1064293767,
    -1064433554, -1064563714, -1064684169, -1064794844, -1064895673, -1064986594,
    -1065067552, -1065138499, -1065199390, -1065250190, -1065290866, -1065321395,
    -1065341758, -1065351943, -1065351943, -1065341758, -1065321395, -1065290866,
    -1065250189, -1065199390, -1065138498, -1065067551, -1064986592, -1064895671,
    -1064794843, -1064684167, -1064563713, -1064433551, -1064293764, -1064144437,
    -1063985653, -1063817517, -1063640126, -1063453592, -1063258024, -1063053544,
    -1062840277, -1062618344, -1062387893, -1062149049, -1061901971, -1061646804,
    -1061383695, -1061112818, -1060834322, -1060548392, -1060255191, -1059954897,
    -1059647697, -1059333773, -1059013318, -1058686533, -1058353603, -1058014738,
    -1057670142, -1057320032, -1056964605, -1056243568, -1055512799, -1054772711,
    -1054023768, -1053266425, -1052501157, -1051728398, -1050948633, -1050162349,
    -1049369995, -1048568132, -1046962093, -1045346880, -1043723411, -1042092702,
    -1040455776, -1037439732, -1034146787, -1029895863, -1023165891, -1003083667,
    1016553938, 1026592897, 1032497812, 1035794266, 1039083202, 1041274976,
    1042908933, 1044536145, 1046155594, 1047766357, 1048971713, 1049766900,
    1050556286, 1051339377, 1052115698, 1052884763, 1053646133, 1054399333,
    1055143890, 1055879382, 1056605347, 1057142970, 1057495767, 1057843150,
    1058184907, 1058520823, 1058850709, 1059174357, 1059491564, 1059802151,
    1060105922, 1060402693, 1060692279, 1060974515, 1061249223, 1061516233,
    1061775392, 1062026537, 1062269512, 1062504178, 1062730388, 1062948006,
    1063156894, 1063356934, 1063548000, 1063729974, 1063902751, 1064066223,
    1064220288, 1064364858, 1064499843, 1064625161, 1064740733, 1064846493,
    1064942376, 1065028321, 1065104280, 1065170204, 1065226052, 1065271795,
    1065307401, 1065332849, 1065348123, 1065353216
  >>

SinBits ==
  <<
    0, 1019860090, 1028244683, 1033322495, 1036617238, 1039903963,
    1041684034, 1043316389, 1044941751, 1046559135, 1048167556, 1049171021,
    1049964810, 1050752663, 1051534101, 1052308651, 1053075843, 1053835210,
    1054586291, 1055328630, 1056061777, 1056785289, 1057231665, 1057583127,
    1057929121, 1058269436, 1058603868, 1058932211, 1059254266, 1059569839,
    1059878737, 1060180774, 1060475766, 1060763534, 1061043902, 1061316701,
    1061581765, 1061838934, 1062088050, 1062328964, 1062561527, 1062785601,
    1063001048, 1063207737, 1063405544, 1063594348, 1063774034, 1063944494,
    1064105624, 1064257325, 1064399506, 1064532081, 1064654969, 1064768096,
    1064871392, 1064964795, 1065048249, 1065121703, 1065185112, 1065238438,
    1065281647, 1065314715, 1065337621, 1065350351, 1065352898, 1065345259,
    1065327439, 1065299450, 1065261308, 1065213037, 1065154665, 1065086229,
    1065007769, 1064919333, 1064820976, 1064712757, 1064594740, 1064466998,
    1064329610, 1064182657, 1064026231, 1063860424, 1063685337, 1063501079,
    1063307758, 1063105495, 1062894411, 1062674633, 1062446298, 1062209540,
    1061964507, 1061711344, 1061450208, 1061181257, 1060904651, 1060620563,
    1060329160, 1060030624, 1059725131, 1059412873, 1059094036, 1058768810,
    1058437399, 1058099998, 1057756819, 1057408066, 1057053947, 1056424763,
    1055696375, 1054958578, 1054211814, 1053456528, 1052693194, 1051922260,
    1051144210, 1050359508, 1049568623, 1048772050, 1047364515, 1045751496,
    1044130006, 1042501015, 1040865542, 1038261705, 1034970734, 1031546769,
    1024940630, 1011472723, -1011472655, -1024940741, -1031546752, -1034970789,
    -1038261760, -1040865553, -1042501042, -1044130018, -1045751523, -1047364542,
    -1048772056, -1049568636, -1050359514, -1051144223, -1051922273, -1052693192,
    -1053456541, -1054211819, -1054958590, -1055696387, -1056424775, -1057053953,
    -1057408065, -1057756825, -1058100001, -1058437405, -1058768815, -1059094035,
    -1059412878, -1059725134, -1060030629, -1060329162, -1060620562, -1060904653,
    -1061181257, -1061450210, -1061711348, -1061964506, -1062209541, -1062446299,
    -1062674637, -1062894411, -1063105496, -1063307761, -1063501078, -1063685338,
    -1063860425, -1064026233, -1064182658, -1064329611, -1064467001, -1064594740,
    -1064712757, -1064820977, -1064919335, -1065007769, -1065086230, -1065154666,
    -1065213037, -1065261309, -1065299451, -1065327440, -1065345259, -1065352898,
    -1065350351, -1065337621, -1065314715, -1065281647, -1065238437, -1065185112,
    -1065121702, -1065048248, -1064964795, -1064871391, -1064768094, -1064654969,
    -1064532080, -1064399504, -1064257322, -1064105622, -1063944492, -1063774031,
    -1063594348, -1063405543, -1063207735, -1063001048, -1062785600, -1062561525,
    -1062328959, -1062088049, -1061838931, -1061581761, -1061316700, -1061043900,
    -1060763530, -1060475761, -1060180773, -1059878734, -1059569834, -1059254265,
    -1058932208, -1058603863, -1058269437, -1057929119, -1057583123, -1057231659,
    -1056785286, -1056061771, -1055328619, -1054586290, -1053835204, -1053075833,
    -1052308652, -1051534097, -1050752654, -1049964797, -1049171019, -1048167544,
    -1046559112, -1044941751, -1043316379, -1041684015, -1039904034, -1036617226,
    -1033322464, -1028244584, -1019860328, 876330286
  >>

\* |round(k as f32 * c)| for an offset of magnitude k, c given by its table entry
DeltaMagnitude(k, bits) == F32Round(F32MulInt(F32OfBits(Abs(bits)), k))

\* the largest offset any call uses: main's last round has radius BLUR_RADIUS * 2^3
MaxOffset ==
    LET last == BLUR_RADIUS * 2^(Rounds - 1)
    IN  IF MaxRadius > last THEN MaxRadius ELSE last

\* the magnitudes for offsets lo..hi, and the rows of a whole table, computed once
RECURSIVE MagnitudeRow(_, _, _)
MagnitudeRow(bits, lo, hi) ==
    IF lo = hi THEN <<DeltaMagnitude(lo, bits)>>
    ELSE MagnitudeRow(bits, lo, (lo + hi) \div 2)
            \o MagnitudeRow(bits, (lo + hi) \div 2 + 1, hi)

RECURSIVE MagnitudeRows(_, _, _)
MagnitudeRows(table, lo, hi) ==
    IF lo = hi THEN <<MagnitudeRow(table[lo], 0, MaxOffset)>>
    ELSE MagnitudeRows(table, lo, (lo + hi) \div 2)
            \o MagnitudeRows(table, (lo + hi) \div 2 + 1, hi)

CosMagnitudes == MagnitudeRows(CosBits, 1, 256)
SinMagnitudes == MagnitudeRows(SinBits, 1, 256)

\* round(i as f32 * c) as i32: the magnitude with the sign of the product
Delta(i, bits, magnitude) ==
    IF i = 0 \/ bits = 0 THEN 0
    ELSE IF (i < 0) = (bits < 0) THEN magnitude ELSE -magnitude

DeltaX(i, d) == Delta(i, CosBits[d + 1], CosMagnitudes[d + 1][Abs(i) + 1])
DeltaY(i, d) == Delta(i, SinBits[d + 1], SinMagnitudes[d + 1][Abs(i) + 1])

\* a plausible slip: the truncating remainder, `%` of Rust
SampleCoordTruncating(c, delta, dim) ==
    IF c + delta < 0 THEN -((-(c + delta)) % dim) ELSE (c + delta) % dim

\* (c as i32 + delta).rem_euclid(dim as i32)
SampleCoord(c, delta, dim) == (c + delta) % dim

\* a plausible slip: -blur_radius..blur_radius, without its upper end
OffsetsExclusive(blur_radius) == (-blur_radius)..(blur_radius - 1)

\* for i in -blur_radius..=blur_radius
Offsets(blur_radius) == (-blur_radius)..blur_radius

\* the sample the loop body reads for offset i at pixel (x, y)
SampleX(img, direction_channel, x, y, i) ==
    SampleCoord(x, DeltaX(i, GetPixel(direction_channel, x, y)), img.width)
SampleY(img, direction_channel, x, y, i) ==
    SampleCoord(y, DeltaY(i, GetPixel(direction_channel, x, y)), img.height)

InBounds(img, x, y) == x \in 0..(img.width - 1) /\ y \in 0..(img.height - 1)

\* get_pixel panics on a coordinate outside the image
SamplesInBounds(img, direction_channel, blur_radius) ==
    \A k \in PixelIndexes(img.width, img.height) : \A i \in Offsets(blur_radius) :
        InBounds(img, SampleX(img, direction_channel, k % img.width, k \div img.width, i),
                      SampleY(img, direction_channel, k % img.width, k \div img.width, i))

RECURSIVE SumRed(_, _, _, _, _, _)
SumRed(img, direction_channel, x, y, i, last) ==
    IF i > last THEN 0
    ELSE GetPixel(img, SampleX(img, direction_channel, x, y, i),
                       SampleY(img, direction_channel, x, y, i))
         + SumRed(img, direction_channel, x, y, i + 1, last)

\* (sum_red / count).round() as u8
BlurredPixel(img, direction_channel, blur_radius, x, y) ==
    LET offs == Offsets(blur_radius)
        count == Cardinality(offs)
        first == IF count = 0 THEN 1 ELSE CHOOSE i \in offs : \A j \in offs : i <= j
        last == IF count = 0 THEN 0 ELSE CHOOSE i \in offs : \A j \in offs : i >= j
        sum_red == SumRed(img, direction_channel, x, y, first, last)
    IN  F32RoundAsU8(F32Div(F32OfInt(sum_red), F32OfInt(count)))

\* get_pixel panics on a coordinate outside the image: no image is returned
directional_blur(img, direction_channel, blur_radius) ==
    IF ~SamplesInBounds(img, direction_channel, blur_radius) THEN NoTexture ELSE
    [width |-> img.width, height |-> img.height,
     data |-> [k \in PixelIndexes(img.width, img.height) |->
                 BlurredPixel(img, direction_channel, blur_radius,
                              k % img.width, k \div img.width)]]

----------------------------------------------------------------------------
(* toroidal_distance and generate_tileable_voronoi                         *)

(* A Point has its two coordinates in [0, 1).  The model keeps them as     *)
(* multiples of 1/Grid, Grid a power of two no smaller than the texture,   *)
(* so that x / SIZE, the differences, the squares and their sum are exact  *)
(* in f32 and only the square root and what follows it round.              *)
GridLog == MaxSizeLog + 1
Grid == Pow2(GridLog)
GridPoints == [x : 0..(Grid - 1), y : 0..(Grid - 1)]

\* the edge lengths explored
Sizes == {Pow2(k) : k \in 0..MaxSizeLog}

\* a plausible slip: no abs() on the difference
ToroidalAxisNoAbs(a, b) ==
    LET d == a - b
    IN  Min2(d, Grid - d)

\* (a - b).abs(), then d.min(1.0 - d), in units of 1/Grid
ToroidalAxis(a, b) ==
    LET d == Abs(a - b)
    IN  Min2(d, Grid - d)

\* the square roots of the sums dx * dx + dy * dy the lattice can give,
\* computed once: entry n + 1 is sqrt(n) in f32
RECURSIVE SqrtRange(_, _)
SqrtRange(lo, hi) ==
    IF lo = hi THEN <<F32SqrtInt(lo)>>
    ELSE SqrtRange(lo, (lo + hi) \div 2) \o SqrtRange((lo + hi) \div 2 + 1, hi)
SqrtTable == SqrtRange(0, (Grid * Grid) \div 2)

toroidal_distance(p1, p2) ==
    LET dx == ToroidalAxis(p1.x, p2.x)
        dy == ToroidalAxis(p1.y, p2.y)
    IN  F32Normal(F32Scale(SqrtTable[dx * dx + dy * dy + 1], -GridLog))

\* Point { x: x as f32 / SIZE as f32, y: y as f32 / SIZE as f32 }
PixelPoint(x, y, size) == [x |-> x * (Grid \div size), y |-> y * (Grid \div size)]

\* points.iter().map(|&p| toroidal_distance(current, p)).min_by(..).unwrap()
MinDistance(current, points) ==
    LET dists == {toroidal_distance(current, points[j]) : j \in 1..Len(points)}
    IN  CHOOSE d \in dists : \A u \in dists : ~F32Less(u, d)

\* first pass: the maximum over the pixels of the nearest-site distance
MaxDistance(size, points) ==
    LET dists == {MinDistance(PixelPoint(k % size, k \div size, size), points) :
                     k \in PixelIndexes(size, size)}
    IN  CHOOSE d \in dists : \A u \in dists : ~F32Less(d, u)

\* a plausible slip: the distance is not inverted
RedValueNotInverted(min_distance, max_distance) ==
    255 - F32AsU8(F32MulInt(F32Div(min_distance, max_distance), 255))

\* a plausible slip: round() before the cast, as normalize_image does
RedValueRounded(min_distance, max_distance) ==
    255 - F32RoundAsU8(F32MulInt(F32OneMinus(F32Div(min_distance, max_distance)), 255))

\* 255 - ((1.0 - min_distance / max_distance) * 255.0) as u8
RedValue(min_distance, max_distance) ==
    255 - F32AsU8(F32MulInt(F32OneMinus(F32Div(min_distance, max_distance)), 255))

generate_tileable_voronoi(size, points) ==
    LET max_distance == MaxDistance(size, points)
    IN  [width |-> size, height |-> size,
         data |-> [k \in PixelIndexes(size, size) |->
                     RedValue(MinDistance(PixelPoint(k % size, k \div size, size), points),
                              max_distance)]]

----------------------------------------------------------------------------
(* main                                                                    *)

VARIABLES
    pc,                 \* where main is
    size,               \* SIZE
    points,             \* the sites drawn by generate_tileable_voronoi
    voronoi_texture,
    blurred_texture,
    i,                  \* the loop variable of the refinement loop
    saved,              \* the files written so far
    fn_img,             \* the functions called alone: the image given,
    fn_dir,             \*   the direction channel,
    fn_radius,          \*   the blur radius,
    fn_out,             \*   the result,
    fn_out2,            \*   the result of a second application,
    fn_p1,              \*   the points given to toroidal_distance,
    fn_p2,
    fn_dist             \*   and the distance returned

vars == <<pc, size, points, voronoi_texture, blurred_texture, i, saved,
          fn_img, fn_dir, fn_radius, fn_out, fn_out2, fn_p1, fn_p2, fn_dist>>

mainVars == <<size, points, voronoi_texture, blurred_texture, i, saved>>
fnVars == <<fn_img, fn_dir, fn_radius, fn_out, fn_out2, fn_p1, fn_p2, fn_dist>>

NoPoint == [x |-> 0, y |-> 0]

MainIdle ==
    /\ size = 1
    /\ points = <<>>
    /\ voronoi_texture = NoTexture
    /\ blurred_texture = NoTexture
    /\ i = 0
    /\ saved = {}

FnIdle ==
    /\ fn_img = NoTexture
    /\ fn_dir = NoTexture
    /\ fn_radius = 0
    /\ fn_out = NoTexture
    /\ fn_out2 = NoTexture
    /\ fn_p1 = NoPoint
    /\ fn_p2 = NoPoint
    /\ fn_dist = F32Zero

Init ==
    /\ pc = "voronoi"
    /\ size \in Sizes
    /\ points = <<>>
    /\ voronoi_texture = NoTexture
    /\ blurred_texture = NoTexture
    /\ i = 0
    /\ saved = {}
    /\ FnIdle

\* let voronoi_texture = generate_tileable_voronoi(); voronoi_texture.save(..)
GenerateVoronoi(n) ==
    /\ pc = "voronoi"
    /\ \E pts \in [1..n -> GridPoints] :
          /\ points' = pts
          /\ voronoi_texture' = generate_tileable_voronoi(size, pts)
    /\ saved' = saved \cup {"voronoi_texture_red.png"}
    /\ pc' = "perlin"
    /\ UNCHANGED <<size, blurred_texture, i>>
    /\ UNCHANGED fnVars

(* generate_perlin_noise and its save.  The texture comes from the noise   *)
(* crate and nothing reads it afterwards: only the file written is kept.   *)
(* Then blurred_texture = voronoi_texture.clone() and the loop starts.     *)
GeneratePerlin ==
    /\ pc = "perlin"
    /\ saved' = saved \cup {"perlin_noise_texture.png"}
    /\ blurred_texture' = voronoi_texture
    /\ i' = 0
    /\ pc' = "blur"
    /\ UNCHANGED <<size, points, voronoi_texture>>
    /\ UNCHANGED fnVars

\* a plausible slip: the evolving texture is its own direction map
BlurStepSelfDirected(blurred, voronoi, round) ==
    directional_blur(blurred, blurred, BLUR_RADIUS * Pow2(round))

\* directional_blur(&blurred_texture, &voronoi_texture, BLUR_RADIUS * 2i32.pow(i))
BlurStep(blurred, voronoi, round) ==
    directional_blur(blurred, voronoi, BLUR_RADIUS * Pow2(round))

Blur ==
    /\ pc = "blur"
    /\ i < Rounds
    /\ blurred_texture' = BlurStep(blurred_texture, voronoi_texture, i)
    /\ pc' = IF blurred_texture' = NoTexture THEN "panicked" ELSE "normalize"
    /\ UNCHANGED <<size, points, voronoi_texture, i, saved>>
    /\ UNCHANGED fnVars

\* blurred_texture = normalize_image(&blurred_texture), and the loop's step
Normalize ==
    /\ pc = "normalize"
    /\ blurred_texture' = normalize_image(blurred_texture)
    /\ i' = i + 1
    /\ pc' = IF i + 1 < Rounds THEN "blur" ELSE "save"
    /\ UNCHANGED <<size, points, voronoi_texture, saved>>
    /\ UNCHANGED fnVars

\* blurred_texture.save("blurred_voronoi_texture_red.png")
Save ==
    /\ pc = "save"
    /\ saved' = saved \cup {"blurred_voronoi_texture_red.png"}
    /\ pc' = "done"
    /\ UNCHANGED <<size, points, voronoi_texture, blurred_texture, i>>
    /\ UNCHANGED fnVars

Next ==
    \/ GenerateVoronoi(MainPoints)
    \/ GeneratePerlin
    \/ Blur
    \/ Normalize
    \/ Save

Spec == Init /\ [][Next]_vars

----------------------------------------------------------------------------
(* generate_tileable_voronoi alone, with more sites than main is run with. *)

NextVoronoi == GenerateVoronoi(NumPoints)

SpecVoronoi == Init /\ [][NextVoronoi]_vars

----------------------------------------------------------------------------
(* normalize_image alone, applied once and then to its own result.         *)

Levels == {k * LevelStep : k \in 0..(255 \div LevelStep)} \cup {255}

NormInputs ==
    UNION {{[width |-> w, height |-> 1, data |-> d] : d \in [PixelIndexes(w, 1) -> Levels]} :
              w \in 1..NormPixels}

InitNorm ==
    /\ pc = "normalize_call"
    /\ MainIdle
    /\ fn_img \in NormInputs
    /\ fn_dir = NoTexture
    /\ fn_radius = 0
    /\ fn_out = NoTexture
    /\ fn_out2 = NoTexture
    /\ fn_p1 = NoPoint
    /\ fn_p2 = NoPoint
    /\ fn_dist = F32Zero

NormalizeOnce ==
    /\ pc = "normalize_call"
    /\ fn_out' = normalize_image(fn_img)
    /\ pc' = "normalized"
    /\ UNCHANGED <<fn_img, fn_dir, fn_radius, fn_out2, fn_p1, fn_p2, fn_dist>>
    /\ UNCHANGED mainVars

NormalizeTwice ==
    /\ pc = "normalized"
    /\ fn_out2' = normalize_image(fn_out)
    /\ pc' = "renormalized"
    /\ UNCHANGED <<fn_img, fn_dir, fn_radius, fn_out, fn_p1, fn_p2, fn_dist>>
    /\ UNCHANGED mainVars

NextNorm ==
    \/ NormalizeOnce
    \/ NormalizeTwice

SpecNorm == InitNorm /\ [][NextNorm]_vars

----------------------------------------------------------------------------
(* directional_blur alone.  The source image is a ramp, so that no two     *)
(* neighbouring pixels are equal; the direction channel is a ramp whose    *)
(* base takes every byte, so that every direction occurs at every pixel.   *)

Ramp(w, h, base, step) ==
    [width |-> w, height |-> h,
     data |-> [k \in PixelIndexes(w, h) |-> (base + k * step) % 256]]

InitBlur ==
    /\ pc = "blur_call"
    /\ MainIdle
    /\ \E w \in 1..BlurDim, h \in 1..BlurDim :
          /\ fn_img \in {Ramp(w, h, b, LevelStep) : b \in {0, 255}}
          /\ fn_dir \in {Ramp(w, h, b, LevelStep) : b \in 0..255}
    /\ fn_radius \in 0..MaxRadius
    /\ fn_out = NoTexture
    /\ fn_out2 = NoTexture
    /\ fn_p1 = NoPoint
    /\ fn_p2 = NoPoint
    /\ fn_dist = F32Zero

BlurCall ==
    /\ pc = "blur_call"
    /\ fn_out' = directional_blur(fn_img, fn_dir, fn_radius)
    /\ pc' = IF fn_out' = NoTexture THEN "panicked" ELSE "blurred"
    /\ UNCHANGED <<fn_img, fn_dir, fn_radius, fn_out2, fn_p1, fn_p2, fn_dist>>
    /\ UNCHANGED mainVars

NextBlur == BlurCall

SpecBlur == InitBlur /\ [][NextBlur]_vars

----------------------------------------------------------------------------
(* toroidal_distance alone.                                                *)

InitDist ==
    /\ pc = "distance_call"
    /\ MainIdle
    /\ fn_p1 \in GridPoints
    /\ fn_p2 \in GridPoints
    /\ fn_img = NoTexture
    /\ fn_dir = NoTexture
    /\ fn_radius = 0
    /\ fn_out = NoTexture
    /\ fn_out2 = NoTexture
    /\ fn_dist = F32Zero

DistanceCall ==
    /\ pc = "distance_call"
    /\ fn_dist' = toroidal_distance(fn_p1, fn_p2)
    /\ pc' = "measured"
    /\ UNCHANGED <<fn_img, fn_dir, fn_radius, fn_out, fn_out2, fn_p1, fn_p2>>
    /\ UNCHANGED mainVars

NextDist == DistanceCall

SpecDist == InitDist /\ [][NextDist]_vars

----------------------------------------------------------------------------
(* Properties.                                                             *)

Values(img) == {img.data[k] : k \in DOMAIN img.data}
FieldMin(img) == CHOOSE v \in Values(img) : \A u \in Values(img) : v <= u
FieldMax(img) == CHOOSE v \in Values(img) : \A u \in Values(img) : v >= u
NonConstant(img) == Cardinality(Values(img)) > 1
Normalized == pc \in {"normalized", "renormalized"}

(* C1: normalize_image of a non-constant image has minimum exactly 0 and   *)
(* maximum exactly 255.                                                    *)
C1_NormalizerSurjective ==
    (Normalized /\ NonConstant(fn_img)) =>
        (FieldMin(fn_out) = 0 /\ FieldMax(fn_out) = 255)

\* a non-constant image that reaches neither 0 nor 255 has been normalized
C1_Witness ==
    /\ pc = "normalized"
    /\ NonConstant(fn_img)
    /\ FieldMin(fn_img) > 0
    /\ FieldMax(fn_img) < 255

(* C2: normalize_image is idempotent: applied to its own result it changes *)
(* no pixel.                                                               *)
C2_NormalizerIdempotent ==
    pc = "renormalized" => fn_out2 = fn_out

\* the first application changed the image and left a value strictly
\* between 0 and 255 for the second one to round again
C2_Witness ==
    /\ pc = "renormalized"
    /\ fn_out # fn_img
    /\ \E v \in Values(fn_out) : 0 < v /\ v < 255

(* C3: normalize_image of a flat image (max == min) returns the image      *)
(* unchanged at every pixel; the quotient by max - min = 0 is not taken.   *)
C3_FlatUnchanged ==
    (Normalized /\ ~NonConstant(fn_img)) => fn_out = fn_img

\* a flat image of several pixels, neither black nor white, was normalized
C3_Witness ==
    /\ pc = "normalized"
    /\ ~NonConstant(fn_img)
    /\ fn_img.width > 1
    /\ FieldMin(fn_img) > 0
    /\ FieldMax(fn_img) < 255

(* C4: directional_blur with blur_radius = 0 returns the source image,     *)
(* pixel for pixel, whatever the direction channel.                        *)
C4_RadiusZeroIdentity ==
    (pc # "blur_call" /\ fn_radius = 0) => fn_out = fn_img

\* a non-constant image was blurred with radius 0 along another image
C4_Witness ==
    /\ pc = "blurred"
    /\ fn_radius = 0
    /\ NonConstant(fn_img)
    /\ fn_dir # fn_img

(* C5: every sample directional_blur reads, for every pixel and every      *)
(* offset in [-r, r], is at ((x + dx) mod W, (y + dy) mod H) with the      *)
(* non-negative modulo: inside the image and congruent to x + dx and to    *)
(* y + dy, also when these are negative or beyond the dimension.  No read  *)
(* is out of bounds.                                                       *)
C5_SamplesWrap ==
    /\ pc # "panicked"
    /\ \A k \in DOMAIN fn_img.data : \A off \in (-fn_radius)..fn_radius :
          LET x == k % fn_img.width
              y == k \div fn_img.width
              tx == x + DeltaX(off, GetPixel(fn_dir, x, y))
              ty == y + DeltaY(off, GetPixel(fn_dir, x, y))
              sx == SampleX(fn_img, fn_dir, x, y, off)
              sy == SampleY(fn_img, fn_dir, x, y, off)
              turns == (-(fn_radius + 1))..(fn_radius + 1)
          IN  /\ 0 <= sx /\ sx < fn_img.width
              /\ 0 <= sy /\ sy < fn_img.height
              /\ \E q \in turns : sx = tx - q * fn_img.width
              /\ \E q \in turns : sy = ty - q * fn_img.height

\* a blur has read a sample left of column 0 and one beyond the last row
C5_Witness ==
    /\ pc = "blurred"
    /\ \E k \in DOMAIN fn_img.data : \E off \in (-fn_radius)..fn_radius :
          (k % fn_img.width) + DeltaX(off, fn_dir.data[k]) < 0
    /\ \E k \in DOMAIN fn_img.data : \E off \in (-fn_radius)..fn_radius :
          (k \div fn_img.width) + DeltaY(off, fn_dir.data[k]) >= fn_img.height

(* C8: toroidal_distance is symmetric: the distance from p to q is the     *)
(* distance from q to p.                                                   *)
C8_Symmetric ==
    pc = "measured" => fn_dist = toroidal_distance(fn_p2, fn_p1)

\* two points more than half the square apart on x: the wrapped path is taken
C8_Witness ==
    /\ pc = "measured"
    /\ Abs(fn_p1.x - fn_p2.x) > Grid \div 2
    /\ fn_p1.y # fn_p2.y
    /\ fn_dist # F32Zero

\* the nearest-site distance of pixel k of the texture generated
PixelDistance(k) ==
    MinDistance(PixelPoint(k % size, k \div size, size), points)

\* (1 - d / maxDist) * 255 in f32
ScaledDistance(d, maxd) == F32MulInt(F32OneMinus(F32Div(d, maxd)), 255)

GeneratedWithSpread == pc # "voronoi" /\ MaxDistance(size, points) # F32Zero

(* C6, as stated: with maxDist > 0, every pixel at distance maxDist has    *)
(* intensity 255, and every pixel nearest to a site is the darkest, with   *)
(* intensity 0.                                                            *)
C6_NearestIsBlack ==
    GeneratedWithSpread =>
        LET dists == {PixelDistance(k) : k \in DOMAIN voronoi_texture.data}
            nearest == CHOOSE d \in dists : \A u \in dists : ~F32Less(u, d)
            farthest == MaxDistance(size, points)
        IN  \A k \in DOMAIN voronoi_texture.data :
               /\ PixelDistance(k) = farthest => voronoi_texture.data[k] = 255
               /\ PixelDistance(k) = nearest =>
                     /\ voronoi_texture.data[k] = FieldMin(voronoi_texture)
                     /\ voronoi_texture.data[k] = 0

(* C6, amended: with maxDist > 0, every pixel at distance maxDist has      *)
(* intensity 255, and every pixel nearest to a site has the lowest         *)
(* intensity of the field, which is 0 when the pixel is on a site.         *)
C6_FarthestWhiteNearestDarkest ==
    GeneratedWithSpread =>
        LET dists == {PixelDistance(k) : k \in DOMAIN voronoi_texture.data}
            nearest == CHOOSE d \in dists : \A u \in dists : ~F32Less(u, d)
            farthest == MaxDistance(size, points)
        IN  \A k \in DOMAIN voronoi_texture.data :
               /\ PixelDistance(k) = farthest => voronoi_texture.data[k] = 255
               /\ PixelDistance(k) = nearest =>
                     voronoi_texture.data[k] = FieldMin(voronoi_texture)
               /\ PixelDistance(k) = F32Zero => voronoi_texture.data[k] = 0

\* a field was generated in which no pixel is on a site, some pixel is
\* nearer than another, and the darkest pixel is not black
C6_Witness ==
    /\ GeneratedWithSpread
    /\ \A k \in DOMAIN voronoi_texture.data : PixelDistance(k) # F32Zero
    /\ NonConstant(voronoi_texture)
    /\ FieldMin(voronoi_texture) > 0

(* C7: when pass 1 yields maxDist == 0, generation fails and no field is   *)
(* produced.                                                               *)
C7_FailsFastOnZeroMaxDist ==
    (pc # "voronoi" /\ MaxDistance(size, points) = F32Zero) =>
        voronoi_texture = NoTexture

(* C10, as stated: with maxDist > 0, every pixel has intensity             *)
(* 255 - round(t * 255), t = 1 - d / maxDist, rounded to nearest.          *)
C10_IntensityRounded ==
    GeneratedWithSpread =>
        LET maxd == MaxDistance(size, points)
        IN  \A k \in DOMAIN voronoi_texture.data :
               voronoi_texture.data[k] =
                  255 - F32Round(ScaledDistance(PixelDistance(k), maxd))

(* C10, amended: with maxDist > 0, every pixel has intensity               *)
(* 255 - trunc(t * 255), t = 1 - d / maxDist in single precision: the      *)
(* fraction of t * 255 is dropped, not rounded.                            *)
C10_IntensityTruncated ==
    GeneratedWithSpread =>
        LET maxd == MaxDistance(size, points)
        IN  \A k \in DOMAIN voronoi_texture.data :
               voronoi_texture.data[k] =
                  255 - F32Floor(ScaledDistance(PixelDistance(k), maxd))

\* a field was generated with a pixel whose t * 255 has a fraction of at
\* least one half: rounding and truncation differ there
C10_Witness ==
    /\ GeneratedWithSpread
    /\ LET maxd == MaxDistance(size, points)
       IN  \E k \in DOMAIN voronoi_texture.data :
              F32Round(ScaledDistance(PixelDistance(k), maxd))
                 # F32Floor(ScaledDistance(PixelDistance(k), maxd))

(* C9: the refinement loop runs exactly 4 rounds in order; round k blurs   *)
(* the current texture with radius BLUR_RADIUS * 2^k along the original    *)
(* distance field, then normalizes the result before the next round; no    *)
(* round changes the distance field.                                       *)
C9_RefinementRounds ==
    /\ [](pc \in {"blur", "normalize"} => i < 4)
    /\ [](pc \in {"save", "done"} => i = 4)
    /\ [][/\ pc = "perlin" => (pc' = "blur" /\ i' = 0 /\ blurred_texture' = voronoi_texture)
          /\ pc = "blur" =>
                /\ pc' = "normalize"
                /\ i' = i
                /\ blurred_texture' =
                      directional_blur(blurred_texture,
                                       generate_tileable_voronoi(size, points),
                                       BLUR_RADIUS * 2^i)
          /\ pc = "normalize" =>
                /\ pc' = (IF i < 3 THEN "blur" ELSE "save")
                /\ i' = i + 1
                /\ blurred_texture' = normalize_image(blurred_texture)
          /\ pc \in {"perlin", "blur", "normalize", "save"} =>
                voronoi_texture' = voronoi_texture
         ]_vars

\* the four rounds are done and have changed the texture
C9_Witness ==
    /\ pc = "done"
    /\ i = 4
    /\ NonConstant(voronoi_texture)
    /\ blurred_texture # voronoi_texture
    /\ blurred_texture # normalize_image(voronoi_texture)

====
